---- MODULE Spec2Model ----
(***************************************************************************)
(* Model of the Digital Dragnet scoring engine (src/backend/dragnet.py),   *)
(* of the single-facility pipelines (run_dragnet, /api/score) and of the   *)
(* batch runners (run_batch_dragnet, /api/batch).                          *)
(*                                                                         *)
(* Python floats are IEEE-754 binary64 values.  They are modelled bit for  *)
(* bit: a float is a sign, a 53-bit significand and a binary exponent, and *)
(* every arithmetic operator of the source rounds to nearest, ties to      *)
(* even, as the hardware does.  Significands do not fit the integers of    *)
(* the model checker, so naturals of arbitrary size are kept as sequences  *)
(* of limbs, least significant first.                                      *)
(***************************************************************************)
EXTENDS Integers, Sequences, FiniteSets, TLC

(***************************************************************************)
(* Arbitrary-size naturals: little-endian sequences of limbs, canonical    *)
(* (no most-significant zero limb; zero is the empty sequence).            *)
(***************************************************************************)
LimbBits == 7 * 2

LimbBase == 2 ^ LimbBits

RECURSIVE NatFromInt(_)
NatFromInt(n) ==
    IF n = 0 THEN << >>
    ELSE <<n % LimbBase>> \o NatFromInt(n \div LimbBase)

RECURSIVE NatToInt(_)
NatToInt(a) ==
    IF a = << >> THEN 0
    ELSE a[1] + LimbBase * NatToInt(Tail(a))

RECURSIVE NatTrim(_)
NatTrim(a) ==
    IF a = << >> THEN a
    ELSE IF a[Len(a)] = 0 THEN NatTrim(SubSeq(a, 1, Len(a) - 1))
    ELSE a

RECURSIVE NatAddC(_, _, _)
NatAddC(a, b, c) ==
    IF a = << >> /\ b = << >> THEN (IF c = 0 THEN << >> ELSE <<c>>)
    ELSE LET x == IF a = << >> THEN 0 ELSE a[1]
             y == IF b = << >> THEN 0 ELSE b[1]
             s == x + y + c
             ta == IF a = << >> THEN a ELSE Tail(a)
             tb == IF b = << >> THEN b ELSE Tail(b)
         IN  <<s % LimbBase>> \o NatAddC(ta, tb, s \div LimbBase)

NatAdd(a, b) == NatAddC(a, b, 0)

\* a - b for a >= b, limb by limb with a borrow
RECURSIVE NatSubB(_, _, _)
NatSubB(a, b, w) ==
    IF a = << >> THEN << >>
    ELSE LET y == IF b = << >> THEN 0 ELSE b[1]
             d == a[1] - y - w
             tb == IF b = << >> THEN b ELSE Tail(b)
         IN  IF d < 0
             THEN <<d + LimbBase>> \o NatSubB(Tail(a), tb, 1)
             ELSE <<d>> \o NatSubB(Tail(a), tb, 0)

NatSub(a, b) == NatTrim(NatSubB(a, b, 0))

\* -1, 0, 1 as a < b, a = b, a > b
RECURSIVE NatCmpFrom(_, _, _)
NatCmpFrom(a, b, i) ==
    IF i = 0 THEN 0
    ELSE IF a[i] < b[i] THEN -1
    ELSE IF a[i] > b[i] THEN 1
    ELSE NatCmpFrom(a, b, i - 1)

NatCmp(a, b) ==
    IF Len(a) < Len(b) THEN -1
    ELSE IF Len(a) > Len(b) THEN 1
    ELSE NatCmpFrom(a, b, Len(a))

\* a * k + c for a small k (k, c < 2^16)
RECURSIVE NatMulSmallC(_, _, _)
NatMulSmallC(a, k, c) ==
    IF a = << >> THEN NatFromInt(c)
    ELSE LET p == a[1] * k + c
         IN  <<p % LimbBase>> \o NatMulSmallC(Tail(a), k, p \div LimbBase)

NatMulSmall(a, k) == NatTrim(NatMulSmallC(a, k, 0))

NatShiftLimbs(a, n) ==
    IF a = << >> THEN a ELSE [i \in 1..n |-> 0] \o a

RECURSIVE NatMulFrom(_, _, _)
NatMulFrom(a, b, i) ==
    IF i > Len(b) THEN << >>
    ELSE NatAdd(NatShiftLimbs(NatMulSmall(a, b[i]), i - 1),
                NatMulFrom(a, b, i + 1))

NatMul(a, b) == NatMulFrom(a, b, 1)

\* quotient and remainder of a by a small d (d < 2^17), most significant
\* limb first; the result is <<quotient, remainder>>
RECURSIVE NatDivModFrom(_, _, _, _)
NatDivModFrom(a, d, i, r) ==
    IF i = 0 THEN << << >>, r >>
    ELSE LET cur == r * LimbBase + a[i]
             rest == NatDivModFrom(a, d, i - 1, cur % d)
         IN  << rest[1] \o <<cur \div d>>, rest[2] >>

NatDivSmall(a, d) == NatTrim(NatDivModFrom(a, d, Len(a), 0)[1])

NatModSmall(a, d) == NatDivModFrom(a, d, Len(a), 0)[2]

\* a * 2^k
NatShl(a, k) ==
    NatShiftLimbs(NatMulSmall(a, 2 ^ (k % LimbBits)), k \div LimbBits)

\* floor(a / 2^k)
NatShr(a, k) ==
    LET n == k \div LimbBits
    IN  IF n >= Len(a) THEN << >>
        ELSE NatDivSmall(SubSeq(a, n + 1, Len(a)), 2 ^ (k % LimbBits))

RECURSIVE IntBitLen(_)
IntBitLen(n) == IF n = 0 THEN 0 ELSE 1 + IntBitLen(n \div 2)

NatBitLen(a) ==
    IF a = << >> THEN 0
    ELSE LimbBits * (Len(a) - 1) + IntBitLen(a[Len(a)])

NatIsOdd(a) == a # << >> /\ a[1] % 2 = 1

NatOne == <<1>>

\* floor(a / 2^k) rounded to nearest, ties to even, for k >= 1
\* q is the floor, c compares the remainder with one half
NatRoundUp(q, c) ==
    IF c > 0 \/ (c = 0 /\ NatIsOdd(q)) THEN NatAdd(q, NatOne) ELSE q

NatShrRoundQ(a, k, q) ==
    NatRoundUp(q, NatCmp(NatSub(a, NatShl(q, k)), NatShl(NatOne, k - 1)))

NatShrRound(a, k) == NatShrRoundQ(a, k, NatShr(a, k))

(***************************************************************************)
(* binary64: value = sgn * man * 2^exp, with man = 0 or                    *)
(* 2^52 <= man < 2^53.  The values of this program stay far from the       *)
(* overflow and subnormal ranges, so the exponent is not bounded.          *)
(***************************************************************************)
MantissaBits == 52 + 1

FZero == [sgn |-> 1, man |-> << >>, exp |-> 0]

\* the binary64 nearest to sgn * m * 2^e
\* q is a rounded significand: rounding up may have carried into one more bit
FCarry(sgn, q, e) ==
    IF NatBitLen(q) > MantissaBits
    THEN [sgn |-> sgn, man |-> NatShr(q, 1), exp |-> e + 1]
    ELSE [sgn |-> sgn, man |-> q, exp |-> e]

\* len is the bit length of m
FRoundLen(sgn, m, e, len) ==
    IF len = 0 THEN FZero
    ELSE IF len <= MantissaBits
    THEN [sgn |-> sgn, man |-> NatShl(m, MantissaBits - len),
          exp |-> e - (MantissaBits - len)]
    ELSE FCarry(sgn, NatShrRound(m, len - MantissaBits),
                e + (len - MantissaBits))

FRound(sgn, m, e) == FRoundLen(sgn, m, e, NatBitLen(m))

Abs(n) == IF n < 0 THEN -n ELSE n

Sign(n) == IF n < 0 THEN -1 ELSE 1

\* float(n) for an int n
FFromInt(n) == FRound(Sign(n), NatFromInt(Abs(n)), 0)

\* a / b for ints a and b > 0: Python's true division, correctly rounded.
\* The quotient is taken to more than MantissaBits + 2 bits and the
\* remainder kept as a sticky bit.
FDivNum(sgn, num, b, k) ==
    FRound(sgn,
           NatMulSmallC(NatDivSmall(num, b), 2,
                        IF NatModSmall(num, b) = 0 THEN 0 ELSE 1),
           0 - k - 1)

FDivBits(a, b, k) == FDivNum(Sign(a), NatShl(NatFromInt(Abs(a)), k), b, k)

FDivInt(a, b) == FDivBits(a, b, MantissaBits + 2 + IntBitLen(b))

FMul(x, y) == FRound(x.sgn * y.sgn, NatMul(x.man, y.man), x.exp + y.exp)

\* the sum, as sign and exact magnitude at exponent e, of sx * mx and sy * my
FAddMag(sx, mx, sy, my, c) ==
    IF sx = sy THEN [sgn |-> sx, mag |-> NatAdd(mx, my)]
    ELSE IF c = 0 THEN [sgn |-> 1, mag |-> << >>]
    ELSE IF c > 0 THEN [sgn |-> sx, mag |-> NatSub(mx, my)]
    ELSE [sgn |-> sy, mag |-> NatSub(my, mx)]

FRoundMag(r, e) == FRound(r.sgn, r.mag, e)

FAddAligned(sx, mx, sy, my, e) ==
    FRoundMag(FAddMag(sx, mx, sy, my, NatCmp(mx, my)), e)

\* both significands are brought to the smaller exponent e and added exactly
FAddAt(x, y, e) ==
    FAddAligned(x.sgn, NatShl(x.man, x.exp - e),
                y.sgn, NatShl(y.man, y.exp - e), e)

FAdd(x, y) ==
    IF x.man = << >> THEN y
    ELSE IF y.man = << >> THEN x
    ELSE FAddAt(x, y, IF x.exp < y.exp THEN x.exp ELSE y.exp)

\* -1, 0, 1 as |x| < |y|, |x| = |y|, |x| > |y|
FCmpMag(x, y) ==
    IF x.man = << >> THEN (IF y.man = << >> THEN 0 ELSE -1)
    ELSE IF y.man = << >> THEN 1
    ELSE IF x.exp < y.exp THEN -1
    ELSE IF x.exp > y.exp THEN 1
    ELSE NatCmp(x.man, y.man)

FCmp(x, y) ==
    LET sx == IF x.man = << >> THEN 0 ELSE x.sgn
        sy == IF y.man = << >> THEN 0 ELSE y.sgn
    IN  IF sx < sy THEN -1
        ELSE IF sx > sy THEN 1
        ELSE IF sx = 0 THEN 0
        ELSE sx * FCmpMag(x, y)

FLt(x, y) == FCmp(x, y) < 0

FGeq(x, y) == FCmp(x, y) >= 0

FLeq(x, y) == FCmp(x, y) <= 0

FNeg(x) == IF x.man = << >> THEN x ELSE [x EXCEPT !.sgn = 0 - x.sgn]

\* the integer nearest to x * 10, ties to even
FTenthsOf(sgn, m, e) ==
    IF e >= 0 THEN sgn * NatToInt(NatShl(m, e))
    ELSE sgn * NatToInt(NatShrRound(m, 0 - e))

FTenths(x) == FTenthsOf(x.sgn, NatMulSmall(x.man, 10), x.exp)

\* round(x, 1): the decimal with one digit nearest to x, as a float
FRound1(x) == FDivInt(FTenths(x), 10)


(***************************************************************************)
(* Literals of the source.  A decimal literal such as 0.30 denotes the     *)
(* binary64 nearest to 30/100.                                             *)
(***************************************************************************)
DecimalLiteral(digits, scale) == FDivInt(digits, scale)

ALPHA == DecimalLiteral(50, 100)

BETA == DecimalLiteral(30, 100)

\* a weight that no longer sums to one with the others (0.25 for 0.20)
GAMMA_Slip == DecimalLiteral(25, 100)

GAMMA == DecimalLiteral(20, 100)

MAX_TRAILER_BENCHMARK == 300

MAX_GATE_BENCHMARK == 5

WhaleCutoff == 80

StandardCutoff == 50

NormCap == 100

\* max where the source has min
FMax(x, y) == IF FLt(y, x) THEN x ELSE y

MinCap_Max(x) == FMax(x, FFromInt(NormCap))

\* min(x, 100) for a float x and the int 100: the first argument unless the
\* second is smaller
FMin(x, y) == IF FLt(y, x) THEN y ELSE x

MinCap(x) == FMin(x, FFromInt(NormCap))

\* the normalization without its cap
Normalize_NoCap(count, benchmark) ==
    FMul(FDivInt(count, benchmark), FFromInt(NormCap))

\* floor division (//) where the source has true division (/)
Normalize_FloorDiv(count, benchmark) ==
    MinCap(FMul(FFromInt(count \div benchmark), FFromInt(NormCap)))

\* min((count / benchmark) * 100, 100) for an int count
Normalize(count, benchmark) ==
    MinCap(FMul(FDivInt(count, benchmark), FFromInt(NormCap)))

\* the weights of the trailer and the gate terms exchanged
WeightedSum_Swapped(np, nt, ng) ==
    [norm_trailers |-> nt, norm_gates |-> ng, norm_paved |-> np,
     score |-> FAdd(FAdd(FMul(ALPHA, np), FMul(GAMMA, nt)), FMul(BETA, ng))]

ScoreLocals_Swapped(paved, trailers, gates) ==
    WeightedSum_Swapped(paved, Normalize(trailers, MAX_TRAILER_BENCHMARK),
                        Normalize(gates, MAX_GATE_BENCHMARK))

\* the gate term subtracted instead of added
WeightedSum_Minus(np, nt, ng) ==
    [norm_trailers |-> nt, norm_gates |-> ng, norm_paved |-> np,
     score |-> FAdd(FAdd(FMul(ALPHA, np), FMul(BETA, nt)),
                    FNeg(FMul(GAMMA, ng)))]

ScoreLocals_Minus(paved, trailers, gates) ==
    WeightedSum_Minus(paved, Normalize(trailers, MAX_TRAILER_BENCHMARK),
                      Normalize(gates, MAX_GATE_BENCHMARK))

\* the locals and the result of calculate_velocity_score
\* score = (ALPHA * norm_paved) + (BETA * norm_trailers) + (GAMMA * norm_gates)
WeightedSum(np, nt, ng) ==
    [norm_trailers |-> nt, norm_gates |-> ng, norm_paved |-> np,
     score |-> FAdd(FAdd(FMul(ALPHA, np), FMul(BETA, nt)), FMul(GAMMA, ng))]

\* paved_area clamped to [0, 100] where the source passes it through
ScoreLocals_ClampPaved(paved, trailers, gates) ==
    WeightedSum(FMax(MinCap(paved), FZero),
                Normalize(trailers, MAX_TRAILER_BENCHMARK),
                Normalize(gates, MAX_GATE_BENCHMARK))

ScoreLocals(paved, trailers, gates) ==
    WeightedSum(paved, Normalize(trailers, MAX_TRAILER_BENCHMARK),
                Normalize(gates, MAX_GATE_BENCHMARK))

calculate_velocity_score(paved, trailers, gates) ==
    ScoreLocals(paved, trailers, gates).score

\* cutoffs exclusive (>) where the source has them inclusive (>=)
classify_facility_Strict(s) ==
    IF FLt(FFromInt(WhaleCutoff), s)
    THEN [label |-> "WHALE", tier |-> "HIGH PRIORITY"]
    ELSE IF FLt(FFromInt(StandardCutoff), s)
    THEN [label |-> "STANDARD", tier |-> "STANDARD PROSPECT"]
    ELSE [label |-> "LOW", tier |-> "LOW PRIORITY"]

\* the label and the tier of the dict classify_facility returns; the other
\* entries of the dict are fixed texts of the tier
classify_facility(s) ==
    IF FGeq(s, FFromInt(WhaleCutoff))
    THEN [label |-> "WHALE", tier |-> "HIGH PRIORITY"]
    ELSE IF FGeq(s, FFromInt(StandardCutoff))
    THEN [label |-> "STANDARD", tier |-> "STANDARD PROSPECT"]
    ELSE [label |-> "LOW", tier |-> "LOW PRIORITY"]

PavedMega == 90

PavedStandard == 70

PavedMixed == 50

interpret_paved(pct) ==
    IF FGeq(pct, FFromInt(PavedMega))
    THEN "Mega DC - Maximum land utilization, high complexity"
    ELSE IF FGeq(pct, FFromInt(PavedStandard))
    THEN "Standard DC - Good operational footprint"
    ELSE IF FGeq(pct, FFromInt(PavedMixed))
    THEN "Mixed-use - Room for optimization"
    ELSE "Limited paved area - May be office-heavy"

TrailersWhale == 200

TrailersHigh == 100

TrailersRegional == 50

\* the thresholds exclusive where the source has >=
interpret_trailers_Strict(count) ==
    IF count > TrailersWhale
    THEN "WHALE territory - Major distribution hub"
    ELSE IF count > TrailersHigh
    THEN "High-volume facility - Significant throughput"
    ELSE IF count > TrailersRegional
    THEN "Regional depot - Moderate activity"
    ELSE "Small operation - Limited scale"

interpret_trailers(count) ==
    IF count >= TrailersWhale
    THEN "WHALE territory - Major distribution hub"
    ELSE IF count >= TrailersHigh
    THEN "High-volume facility - Significant throughput"
    ELSE IF count >= TrailersRegional
    THEN "Regional depot - Moderate activity"
    ELSE "Small operation - Limited scale"

GatesComplex == 4

GatesStandard == 2

interpret_gates(count) ==
    IF count >= GatesComplex
    THEN "Complex multi-flow - High orchestration needs"
    ELSE IF count >= GatesStandard
    THEN "Standard facility - Some traffic separation"
    ELSE "Single entry point - Simple flow"

\* the locals of explain_score_breakdown
Contributions(paved, trailer_norm, gate_norm) ==
    [paved_contribution |-> FMul(ALPHA, paved),
     trailer_norm |-> trailer_norm,
     trailer_contribution |-> FMul(BETA, trailer_norm),
     gate_norm |-> gate_norm,
     gate_contribution |-> FMul(GAMMA, gate_norm)]

ExplainLocals(paved, trailers, gates) ==
    Contributions(paved, Normalize(trailers, MAX_TRAILER_BENCHMARK),
                  Normalize(gates, MAX_GATE_BENCHMARK))

\* the score argument dropped and the total recomputed from the
\* contributions, where the source reports the argument
BreakdownDict_Recomputed(paved, trailers, gates, s, l) ==
    [total_score |->
        FRound1(FAdd(FAdd(l.paved_contribution, l.trailer_contribution),
                     l.gate_contribution)),
     paved_area |->
        [raw_value |-> FTenths(paved),
         contribution |-> FRound1(l.paved_contribution),
         interpretation |-> interpret_paved(paved)],
     trailer_count |->
        [raw_value |-> trailers,
         normalized |-> FTenths(l.trailer_norm),
         contribution |-> FRound1(l.trailer_contribution),
         interpretation |-> interpret_trailers(trailers)],
     gate_nodes |->
        [raw_value |-> gates,
         normalized |-> FTenths(l.gate_norm),
         contribution |-> FRound1(l.gate_contribution),
         interpretation |-> interpret_gates(gates)]]

\* the dict explain_score_breakdown returns, from its locals l.  A value
\* formatted with .1f is kept as its number of tenths; the weights and the
\* formula text are fixed texts of the constants.
BreakdownDict(paved, trailers, gates, s, l) ==
    [total_score |-> FRound1(s),
     paved_area |->
        [raw_value |-> FTenths(paved),
         contribution |-> FRound1(l.paved_contribution),
         interpretation |-> interpret_paved(paved)],
     trailer_count |->
        [raw_value |-> trailers,
         normalized |-> FTenths(l.trailer_norm),
         contribution |-> FRound1(l.trailer_contribution),
         interpretation |-> interpret_trailers(trailers)],
     gate_nodes |->
        [raw_value |-> gates,
         normalized |-> FTenths(l.gate_norm),
         contribution |-> FRound1(l.gate_contribution),
         interpretation |-> interpret_gates(gates)]]

explain_score_breakdown(paved, trailers, gates, s) ==
    BreakdownDict(paved, trailers, gates, s,
                  ExplainLocals(paved, trailers, gates))

\* /api/explain: the worked example of the algorithm documentation
ExampleOf(paved, sixty) ==
    [paved_contribution |-> FMul(ALPHA, paved),
     trailer_contribution |-> FMul(BETA, sixty),
     gate_contribution |-> FMul(GAMMA, sixty),
     score |-> FAdd(FAdd(FMul(ALPHA, paved), FMul(BETA, sixty)),
                    FMul(GAMMA, sixty)),
     classification |-> "STANDARD PROSPECT"]

example_calculation ==
    ExampleOf(DecimalLiteral(850, 10), DecimalLiteral(600, 10))

(***************************************************************************)
(* The mock providers (random numbers in the source) and the inputs the    *)
(* functions are called with.                                              *)
(***************************************************************************)
PavedSteps == 20

PavedOutside == 2

TrailerSteps == 5

MaxGates == 7

ScoreNear == 2

\* paved-area percentages: a grid over [0, 100] and a few values outside
PavedIdx == (0 - PavedOutside)..(PavedSteps + PavedOutside)

Paved(k) == FDivInt(k * 100, PavedSteps)

PavedGrid == {Paved(k) : k \in PavedIdx}

\* percentages between the grid points, as random.uniform(40.0, 95.0)
\* returns them: 40.1 and 71.95
PavedFine == {DecimalLiteral(4010, 100), DecimalLiteral(7195, 100)}

TrailerGrid ==
    {k * (MAX_TRAILER_BENCHMARK \div TrailerSteps) : k \in -1..(TrailerSteps + 2)}

GateGrid == -1..MaxGates

MockTrailerMin == 50

MockTrailerMax == 250

MockPavedMin == 40

MockPavedMax == 95

MockGateMin == 1

MockGateMax == 5

\* mock_yolo_inference: random.randint(50, 250)
MockTrailers == {t \in TrailerGrid : t >= MockTrailerMin /\ t <= MockTrailerMax}

\* mock_sam_segmentation: random.uniform(40.0, 95.0)
MockPaved ==
    {p \in PavedGrid : /\ FGeq(p, FFromInt(MockPavedMin))
                       /\ FLeq(p, FFromInt(MockPavedMax))}

\* detect_gate_nodes: random.randint(1, 5)
MockGates == {g \in GateGrid : g >= MockGateMin /\ g <= MockGateMax}

\* scores classify_facility is called with directly: the thousandths around
\* the two cutoffs and a coarse grid
ScoreMillis ==
    {c * 1000 + d : c \in {StandardCutoff, WhaleCutoff}, d \in (0 - ScoreNear)..ScoreNear}
        \cup {k * 10000 : k \in -1..11}

ClassifyInputs == {DecimalLiteral(n, 1000) : n \in ScoreMillis}

\* arguments explain_score_breakdown is called with directly: each
\* threshold of the three interpretations and the value just below it, and
\* scores that need not be the score of the measurements
ExplainPaved ==
    {DecimalLiteral(c * 100 - d, 100) :
        c \in {PavedMixed, PavedStandard, PavedMega}, d \in {0, 5}}

ExplainTrailers ==
    {c - d : c \in {TrailersRegional, TrailersHigh, TrailersWhale},
             d \in {0, 1}}

ExplainGates == {c - d : c \in {GatesStandard, GatesComplex}, d \in {0, 1}}

ExplainScores == {DecimalLiteral(n, 100) : n \in {-500, 0, 7996, 12345}}

(***************************************************************************)
(* State.  entry is the caller: a direct call of the engine's functions    *)
(* ("call"), a direct call of classify_facility or of                      *)
(* explain_score_breakdown with a score of the caller, run_dragnet or the  *)
(* /api/score handler; pc is its position.  The batch runners have their   *)
(* own position b_pc.                                                      *)
(***************************************************************************)
VARIABLES entry, pc, paved_area, trailer_count, gate_nodes,
          norm_trailers, norm_gates, norm_paved, score,
          classification, explain_locals, breakdown, result,
          mode, b_pc, targets, results, summary, top_target,
          module_globals, frames

engine_vars == <<entry, pc, paved_area, trailer_count, gate_nodes,
                 norm_trailers, norm_gates, norm_paved, score,
                 classification, explain_locals, breakdown, result>>

batch_vars == <<mode, b_pc, targets, results, summary, top_target>>

\* the module-level names of dragnet.py and the frames of the calls in
\* progress, one per caller
call_vars == <<module_globals, frames>>

vars == <<engine_vars, batch_vars, call_vars>>

NoClassification == [label |-> "", tier |-> ""]

NoRecord == [score |-> FZero]

NoLocals == [paved_contribution |-> FZero]

NoSummary == [whales |-> 0, standard |-> 0, low |-> 0]

EngineIdle ==
    /\ entry = "none" /\ pc = "idle"
    /\ paved_area = FZero /\ trailer_count = 0 /\ gate_nodes = 0
    /\ norm_trailers = FZero /\ norm_gates = FZero /\ norm_paved = FZero
    /\ score = FZero
    /\ classification = NoClassification
    /\ explain_locals = NoLocals
    /\ breakdown = NoRecord /\ result = NoRecord

BatchIdle ==
    /\ mode = "none" /\ b_pc = "idle"
    /\ targets = << >> /\ results = << >>
    /\ summary = NoSummary /\ top_target = NoRecord

\* the module-level names as the import of dragnet.py binds them
ModuleGlobals ==
    [ALPHA |-> ALPHA, BETA |-> BETA, GAMMA |-> GAMMA,
     MAX_TRAILER_BENCHMARK |-> MAX_TRAILER_BENCHMARK,
     MAX_GATE_BENCHMARK |-> MAX_GATE_BENCHMARK]

CallsIdle == module_globals = ModuleGlobals /\ frames = << >>

Init ==
    /\ BatchIdle /\ CallsIdle
    /\ entry \in {"call", "classify_facility", "explain_score_breakdown",
                  "run_dragnet", "get_score"}
    /\ pc = CASE entry = "call" -> "score"
              [] entry = "classify_facility" -> "classify"
              [] entry = "explain_score_breakdown" -> "explain"
              [] OTHER -> "measure"
    /\ paved_area \in
          CASE entry = "call" -> PavedGrid \cup PavedFine
            [] entry = "explain_score_breakdown" -> ExplainPaved
            [] OTHER -> {FZero}
    /\ trailer_count \in
          CASE entry = "call" -> TrailerGrid
            [] entry = "explain_score_breakdown" -> ExplainTrailers
            [] OTHER -> {0}
    /\ gate_nodes \in
          CASE entry = "call" -> GateGrid
            [] entry = "explain_score_breakdown" -> ExplainGates
            [] OTHER -> {0}
    /\ score \in
          CASE entry = "classify_facility" -> ClassifyInputs
            [] entry = "explain_score_breakdown" -> ExplainScores
            [] OTHER -> {FZero}
    /\ norm_trailers = FZero /\ norm_gates = FZero /\ norm_paved = FZero
    /\ classification = NoClassification
    /\ explain_locals = NoLocals
    /\ breakdown = NoRecord /\ result = NoRecord

\* run_dragnet, get_score: the three providers are asked for the measurement
Measure ==
    /\ pc = "measure"
    /\ \E t \in MockTrailers, p \in MockPaved \cup PavedFine,
          g \in MockGates :
          /\ trailer_count' = t
          /\ paved_area' = p
          /\ gate_nodes' = g
    /\ pc' = "score"
    /\ UNCHANGED <<entry, norm_trailers, norm_gates, norm_paved, score,
                   classification, explain_locals, breakdown, result,
                   batch_vars, call_vars>>

Score ==
    /\ pc = "score"
    /\ \E l \in {ScoreLocals(paved_area, trailer_count, gate_nodes)} :
          /\ norm_trailers' = l.norm_trailers
          /\ norm_gates' = l.norm_gates
          /\ norm_paved' = l.norm_paved
    /\ score' = calculate_velocity_score(paved_area, trailer_count, gate_nodes)
    /\ pc' = "classify"
    /\ UNCHANGED <<entry, paved_area, trailer_count, gate_nodes,
                   classification, explain_locals, breakdown, result,
                   batch_vars, call_vars>>

Classify ==
    /\ pc = "classify"
    /\ classification' = classify_facility(score)
    /\ pc' = IF entry = "classify_facility" THEN "done" ELSE "explain"
    /\ UNCHANGED <<entry, paved_area, trailer_count, gate_nodes,
                   norm_trailers, norm_gates, norm_paved, score,
                   explain_locals, breakdown, result, batch_vars, call_vars>>

Explain ==
    /\ pc = "explain"
    /\ explain_locals' = ExplainLocals(paved_area, trailer_count, gate_nodes)
    /\ breakdown' = explain_score_breakdown(paved_area, trailer_count,
                                            gate_nodes, score)
    /\ pc' = IF entry \in {"call", "explain_score_breakdown"}
             THEN "done" ELSE "return"
    /\ UNCHANGED <<entry, paved_area, trailer_count, gate_nodes,
                   norm_trailers, norm_gates, norm_paved, score,
                   classification, result, batch_vars, call_vars>>

\* the details entry of a result
RecordDetails(paved, trailers, gates) ==
    [trailers |-> trailers, paved_pct |-> FRound1(paved), gates |-> gates]

\* the record run_dragnet returns and the JSON body of /api/score
ResultRecord(who, s, c, p, t, g, b) ==
    [score |-> FRound1(s),
     classification |-> IF who = "run_dragnet" THEN c ELSE c.tier,
     classification_details |-> c,
     details |-> RecordDetails(p, t, g),
     breakdown |-> b]

Return ==
    /\ pc = "return"
    /\ result' = ResultRecord(entry, score, classification, paved_area,
                              trailer_count, gate_nodes, breakdown)
    /\ pc' = "done"
    /\ UNCHANGED <<entry, paved_area, trailer_count, gate_nodes,
                   norm_trailers, norm_gates, norm_paved, score,
                   classification, explain_locals, breakdown, batch_vars,
                   call_vars>>

Next == Measure \/ Score \/ Classify \/ Explain \/ Return

Spec == Init /\ [][Next]_vars


(***************************************************************************)
(* The batch runners: run_batch_dragnet (batch_dragnet.py) and the         *)
(* /api/batch handler batch_process (app.py).  A target is a dict of the   *)
(* caller; its name is its position in the input list, and its 'lat' entry *)
(* is a number, a string or absent.                                        *)
(***************************************************************************)
MaxTargets == 3

LatKinds == {"number", "string", "missing"}

TargetLists ==
    UNION {[1..n -> [name : 1..n, lat : LatKinds]] : n \in 0..MaxTargets}

\* the input lists of the model: the i-th target is named i
InputLists == {ts \in TargetLists : \A i \in 1..Len(ts) : ts[i].name = i}

\* measurements the three providers return in a batch, inside their ranges
BatchMeasurements ==
    {<<DecimalLiteral(8500, 100), 180, 3>>,
     <<DecimalLiteral(7195, 100), 240, 5>>,
     <<DecimalLiteral(9500, 100), 240, 5>>,
     <<DecimalLiteral(4000, 100), 60, 1>>}

\* processing the target raises: run_batch_dragnet subscripts target['lat']
\* (KeyError when absent), and detect_gate_nodes formats lat with :.4f
\* (ValueError for a string); batch_process reads facility.get('lat', 0)
Raises(m, target) ==
    \/ target.lat = "string"
    \/ m = "run_batch_dragnet" /\ target.lat = "missing"

\* the result dict of one facility
\* the result dict of run_batch_dragnet, from the score s, the
\* classification c and the breakdown b
CliRecord(target, s, c, details, b) ==
    [name |-> target.name, score |-> FRound1(s),
     classification |-> c.tier, classification_label |-> c.label,
     details |-> details, breakdown |-> b]

\* the result dict of batch_process
ApiRecord(target, s, c, details) ==
    [name |-> target.name, score |-> FRound1(s),
     classification |-> c.tier, details |-> details]

ScoredRecord(m, target, paved, trailers, gates, s) ==
    IF m = "run_batch_dragnet"
    THEN CliRecord(target, s, classify_facility(s),
                   RecordDetails(paved, trailers, gates),
                   explain_score_breakdown(paved, trailers, gates, s))
    ELSE ApiRecord(target, s, classify_facility(s),
                   RecordDetails(paved, trailers, gates))

BatchRecord(m, target, paved, trailers, gates) ==
    ScoredRecord(m, target, paved, trailers, gates,
                 calculate_velocity_score(paved, trailers, gates))

\* list.sort(key=score, reverse=True): a stable sort, descending; records of
\* equal score keep their order
\* a record goes in front of the records of equal score: the order a
\* sort ascending followed by a reversal gives to ties
RECURSIVE InsertDesc_TiesReversed(_, _)
InsertDesc_TiesReversed(sorted, r) ==
    IF sorted = << >> THEN <<r>>
    ELSE IF FLeq(Head(sorted).score, r.score) THEN <<r>> \o sorted
    ELSE <<Head(sorted)>> \o InsertDesc_TiesReversed(Tail(sorted), r)

RECURSIVE InsertDesc(_, _)
InsertDesc(sorted, r) ==
    IF sorted = << >> THEN <<r>>
    ELSE IF FLt(Head(sorted).score, r.score) THEN <<r>> \o sorted
    ELSE <<Head(sorted)>> \o InsertDesc(Tail(sorted), r)

RECURSIVE SortDescFrom(_, _, _)
SortDescFrom(seq, i, acc) ==
    IF i > Len(seq) THEN acc
    ELSE SortDescFrom(seq, i + 1, InsertDesc(acc, seq[i]))

SortDesc(seq) == SortDescFrom(seq, 1, << >>)

IsWhale(r) == FGeq(r.score, FFromInt(WhaleCutoff))

\* the upper end of the standard range inclusive where the source has <
IsStandard_Inclusive(r) ==
    /\ FLeq(FFromInt(StandardCutoff), r.score)
    /\ FLeq(r.score, FFromInt(WhaleCutoff))

IsStandard(r) ==
    FLeq(FFromInt(StandardCutoff), r.score) /\ FLt(r.score, FFromInt(WhaleCutoff))

IsLow(r) == FLt(r.score, FFromInt(StandardCutoff))

\* the summary statistics of a sorted result list
Summary(rs) ==
    [whales |-> Cardinality({i \in 1..Len(rs) : IsWhale(rs[i])}),
     standard |-> Cardinality({i \in 1..Len(rs) : IsStandard(rs[i])}),
     low |-> Cardinality({i \in 1..Len(rs) : IsLow(rs[i])})]

BatchInit ==
    /\ EngineIdle /\ CallsIdle
    /\ mode \in {"run_batch_dragnet", "batch_process"}
    /\ targets \in InputLists
    /\ b_pc = "start"
    /\ results = << >>
    /\ summary = NoSummary /\ top_target = NoRecord

\* batch_process answers an empty list with 400; otherwise the loop starts
BatchStart ==
    /\ b_pc = "start"
    /\ b_pc' = IF mode = "batch_process" /\ targets = << >>
               THEN "rejected" ELSE "loop"
    /\ UNCHANGED <<mode, targets, results, summary, top_target, engine_vars,
                   call_vars>>

\* one iteration of the loop over the targets
BatchIterate ==
    /\ b_pc = "loop"
    /\ Len(results) < Len(targets)
    /\ LET target == targets[Len(results) + 1]
       IN  /\ ~Raises(mode, target)
           /\ \E m \in BatchMeasurements :
                 results' = Append(results,
                                   BatchRecord(mode, target, m[1], m[2], m[3]))
    /\ UNCHANGED <<mode, b_pc, targets, summary, top_target, engine_vars,
                   call_vars>>

\* an iteration raises: nothing in the loop catches, the call ends there
BatchRaise ==
    /\ b_pc = "loop"
    /\ Len(results) < Len(targets)
    /\ Raises(mode, targets[Len(results) + 1])
    /\ b_pc' = "raised"
    /\ UNCHANGED <<mode, targets, results, summary, top_target, engine_vars,
                   call_vars>>

\* after the loop: the sort, the summary and the top target.
\* run_batch_dragnet prints results[0] and raises IndexError on an empty
\* list; batch_process reports None as its top target.
BatchFinish ==
    /\ b_pc = "loop"
    /\ Len(results) = Len(targets)
    /\ results' = SortDesc(results)
    /\ summary' = Summary(results')
    /\ top_target' = IF results' = << >> THEN NoRecord ELSE results'[1]
    /\ b_pc' = IF mode = "run_batch_dragnet" /\ results' = << >>
               THEN "raised" ELSE "done"
    /\ UNCHANGED <<mode, targets, engine_vars, call_vars>>

BatchNext == BatchStart \/ BatchIterate \/ BatchRaise \/ BatchFinish

BatchSpec == BatchInit /\ [][BatchNext]_vars

(***************************************************************************)
(* Several callers of the engine at once (the threads of the API server,   *)
(* or one caller calling again and again).  A call has its own frame of    *)
(* arguments and locals; the weights and the benchmarks are module-level   *)
(* names, looked up when a statement that uses them runs.  One step is one *)
(* statement of calculate_velocity_score, or the call of classify_facility *)
(* or of explain_score_breakdown that follows it.                          *)
(***************************************************************************)
NumCallers == 2

Callers == 1..NumCallers

\* the arguments of the calls
CallArgs ==
    {<<DecimalLiteral(8500, 100), 180, 3>>,
     <<DecimalLiteral(10500, 100), 420, 7>>}

NoFrame ==
    [pc |-> "idle", again |-> FALSE,
     paved_area |-> FZero, trailer_count |-> 0, gate_nodes |-> 0,
     norm_trailers |-> FZero, norm_gates |-> FZero, norm_paved |-> FZero,
     score |-> FZero, classification |-> NoClassification,
     breakdown |-> NoRecord]

\* the frame of a call that has just been entered; again says that it is
\* not the caller's first call
NewFrame(again, paved, trailers, gates) ==
    [NoFrame EXCEPT !.pc = "norm_trailers", !.again = again,
                    !.paved_area = paved, !.trailer_count = trailers,
                    !.gate_nodes = gates]

\* the weighted score with the weights g the module holds at that moment
WeightedScore(g, np, nt, ng) ==
    FAdd(FAdd(FMul(g.ALPHA, np), FMul(g.BETA, nt)), FMul(g.GAMMA, ng))

\* the locals of explain_score_breakdown with the module-level names g
ContributionsWith(g, paved, trailer_norm, gate_norm) ==
    [paved_contribution |-> FMul(g.ALPHA, paved),
     trailer_norm |-> trailer_norm,
     trailer_contribution |-> FMul(g.BETA, trailer_norm),
     gate_norm |-> gate_norm,
     gate_contribution |-> FMul(g.GAMMA, gate_norm)]

ExplainLocalsWith(g, paved, trailers, gates) ==
    ContributionsWith(g, paved,
                      Normalize(trailers, g.MAX_TRAILER_BENCHMARK),
                      Normalize(gates, g.MAX_GATE_BENCHMARK))

CallsInit ==
    /\ EngineIdle /\ BatchIdle
    /\ module_globals = ModuleGlobals
    /\ frames = [w \in Callers |-> NoFrame]

\* caller w calls calculate_velocity_score
CallEnter(w) ==
    /\ frames[w].pc \in {"idle", "done"}
    /\ \E a \in CallArgs :
          frames' = [frames EXCEPT
                        ![w] = NewFrame(frames[w].pc = "done",
                                        a[1], a[2], a[3])]
    /\ UNCHANGED <<module_globals, engine_vars, batch_vars>>

\* the benchmark grows to the largest count seen, where the source only
\* reads it
AssignNormTrailers_Recalibrate(w) ==
    /\ frames[w].pc = "norm_trailers"
    /\ frames' = [frames EXCEPT
                     ![w].norm_trailers =
                         Normalize(frames[w].trailer_count,
                                   module_globals.MAX_TRAILER_BENCHMARK),
                     ![w].pc = "norm_gates"]
    /\ module_globals' =
          [module_globals EXCEPT
              !.MAX_TRAILER_BENCHMARK =
                  IF frames[w].trailer_count > @
                  THEN frames[w].trailer_count ELSE @]
    /\ UNCHANGED <<engine_vars, batch_vars>>

\* norm_trailers = min((trailer_count / MAX_TRAILER_BENCHMARK) * 100, 100)
AssignNormTrailers(w) ==
    /\ frames[w].pc = "norm_trailers"
    /\ frames' = [frames EXCEPT
                     ![w].norm_trailers =
                         Normalize(frames[w].trailer_count,
                                   module_globals.MAX_TRAILER_BENCHMARK),
                     ![w].pc = "norm_gates"]
    /\ UNCHANGED <<module_globals, engine_vars, batch_vars>>

\* norm_gates = min((gate_nodes / MAX_GATE_BENCHMARK) * 100, 100)
AssignNormGates(w) ==
    /\ frames[w].pc = "norm_gates"
    /\ frames' = [frames EXCEPT
                     ![w].norm_gates =
                         Normalize(frames[w].gate_nodes,
                                   module_globals.MAX_GATE_BENCHMARK),
                     ![w].pc = "score"]
    /\ UNCHANGED <<module_globals, engine_vars, batch_vars>>

\* the normalized counts live in one module-level slot, the first frame's,
\* where the source keeps them in the locals of the call
AssignScore_SharedLocals(w) ==
    /\ frames[w].pc = "score"
    /\ frames' = [frames EXCEPT
                     ![w].norm_paved = frames[w].paved_area,
                     ![w].score =
                         WeightedScore(module_globals, frames[w].paved_area,
                                       frames[1].norm_trailers,
                                       frames[1].norm_gates),
                     ![w].pc = "classify"]
    /\ UNCHANGED <<module_globals, engine_vars, batch_vars>>

\* norm_paved = paved_area; score = ALPHA * norm_paved + ...; return score
AssignScore(w) ==
    /\ frames[w].pc = "score"
    /\ frames' = [frames EXCEPT
                     ![w].norm_paved = frames[w].paved_area,
                     ![w].score =
                         WeightedScore(module_globals, frames[w].paved_area,
                                       frames[w].norm_trailers,
                                       frames[w].norm_gates),
                     ![w].pc = "classify"]
    /\ UNCHANGED <<module_globals, engine_vars, batch_vars>>

\* classification = classify_facility(score)
CallClassify(w) ==
    /\ frames[w].pc = "classify"
    /\ frames' = [frames EXCEPT
                     ![w].classification = classify_facility(frames[w].score),
                     ![w].pc = "explain"]
    /\ UNCHANGED <<module_globals, engine_vars, batch_vars>>

\* breakdown = explain_score_breakdown(paved_area, trailers, gates, score)
CallExplain(w) ==
    /\ frames[w].pc = "explain"
    /\ frames' = [frames EXCEPT
                     ![w].breakdown =
                         BreakdownDict(frames[w].paved_area,
                                       frames[w].trailer_count,
                                       frames[w].gate_nodes, frames[w].score,
                                       ExplainLocalsWith(module_globals,
                                                         frames[w].paved_area,
                                                         frames[w].trailer_count,
                                                         frames[w].gate_nodes)),
                     ![w].pc = "done"]
    /\ UNCHANGED <<module_globals, engine_vars, batch_vars>>

CallsNext ==
    \E w \in Callers :
        \/ CallEnter(w)
        \/ AssignNormTrailers(w)
        \/ AssignNormGates(w)
        \/ AssignScore(w)
        \/ CallClassify(w)
        \/ CallExplain(w)

CallsSpec == CallsInit /\ [][CallsNext]_vars

(***************************************************************************)
(* Claims about the scoring engine, checked under Spec.                    *)
(***************************************************************************)
F(n) == FFromInt(n)

\* calculate_velocity_score has returned for the arguments of the state
Scored == entry \in {"call", "run_dragnet", "get_score"}
          /\ pc \in {"classify", "explain", "return", "done"}

\* classify_facility has returned for the score of the state
Classified == \/ entry = "classify_facility" /\ pc = "done"
              \/ entry \in {"call", "run_dragnet", "get_score"}
                 /\ pc \in {"explain", "return", "done"}

\* explain_score_breakdown has returned
Explained == entry \in {"call", "run_dragnet", "get_score"}
             /\ pc \in {"return", "done"}

\* the documented domain of a measurement
InDomain == /\ FGeq(paved_area, F(0)) /\ FLeq(paved_area, F(100))
            /\ trailer_count >= 0 /\ gate_nodes >= 0

\* C1: classify_facility partitions the scores with lower-inclusive
\* cutoffs: every score gets exactly one of the three tiers, WHALE iff
\* score >= 80, STANDARD iff 50 <= score < 80, LOW iff score < 50; so
\* 79.999 is STANDARD, 80.0 is WHALE and 49.999 is LOW.
C1_ClassifyPartition ==
    Classified =>
        /\ classification.label \in {"WHALE", "STANDARD", "LOW"}
        /\ (classification.label = "WHALE") <=> FGeq(score, F(80))
        /\ (classification.label = "STANDARD")
              <=> (FGeq(score, F(50)) /\ FLt(score, F(80)))
        /\ (classification.label = "LOW") <=> FLt(score, F(50))
        /\ score = DecimalLiteral(79999, 1000)
              => classification.label = "STANDARD"
        /\ score = F(80) => classification.label = "WHALE"
        /\ score = DecimalLiteral(49999, 1000)
              => classification.label = "LOW"

C1_Witness ==
    /\ entry = "classify_facility" /\ pc = "done"
    /\ score = DecimalLiteral(79999, 1000)
    /\ classification.label = "STANDARD"

\* C2: the score returned is the weighted sum 0.50 * norm_paved +
\* 0.30 * norm_trailers + 0.20 * norm_gates, evaluated left to right, of
\* norm_paved = paved_area, norm_trailers = min(trailer_count / 300 * 100,
\* 100) and norm_gates = min(gate_nodes / 5 * 100, 100).
C2_WeightedSum ==
    Scored =>
        LET hundred == F(100)
            nt == FMul(FDivInt(trailer_count, 300), hundred)
            ng == FMul(FDivInt(gate_nodes, 5), hundred)
        IN  /\ norm_paved = paved_area
            /\ norm_trailers = (IF FLt(hundred, nt) THEN hundred ELSE nt)
            /\ norm_gates = (IF FLt(hundred, ng) THEN hundred ELSE ng)
            /\ score = FAdd(FAdd(FMul(DecimalLiteral(50, 100), norm_paved),
                                 FMul(DecimalLiteral(30, 100), norm_trailers)),
                            FMul(DecimalLiteral(20, 100), norm_gates))

C2_Witness ==
    /\ Scored /\ entry = "call"
    /\ trailer_count = 120 /\ gate_nodes = 7
    /\ norm_gates = F(100) /\ FLt(norm_trailers, F(100))
    /\ FLt(F(0), norm_paved)

\* C3: inside the documented domain (paved_area in [0, 100], counts >= 0)
\* the score lies in [0, 100].
C3_ScoreInRange ==
    (Scored /\ InDomain) => (FGeq(score, F(0)) /\ FLeq(score, F(100)))

C3_Witness ==
    /\ Scored /\ InDomain
    /\ paved_area = F(100) /\ trailer_count > 300 /\ gate_nodes > 5
    /\ score = F(100)

\* C4: with two of the three inputs held fixed, a larger third input
\* never gives a smaller score.
C4_Monotone ==
    (Scored /\ pc = "classify") =>
        /\ \A p \in PavedGrid :
              FLt(paved_area, p) =>
                 FLeq(score, calculate_velocity_score(p, trailer_count, gate_nodes))
        /\ \A t \in TrailerGrid \cup {trailer_count + 1} :
              t > trailer_count =>
                 FLeq(score, calculate_velocity_score(paved_area, t, gate_nodes))
        /\ \A g \in GateGrid \cup {gate_nodes + 1} :
              g > gate_nodes =>
                 FLeq(score, calculate_velocity_score(paved_area, trailer_count, g))

C4_Witness ==
    /\ Scored /\ pc = "classify"
    /\ trailer_count = 60 /\ gate_nodes = 2
    /\ FLt(score, calculate_velocity_score(paved_area, trailer_count, 3))
    /\ FLt(score, calculate_velocity_score(paved_area, 120, gate_nodes))

\* C5: the score of (0, 0, 0) is exactly 0 and the score of (100, 300, 5)
\* is exactly 100.
C5_BoundaryExact ==
    Scored =>
        /\ (paved_area = F(0) /\ trailer_count = 0 /\ gate_nodes = 0)
              => score = F(0)
        /\ (paved_area = F(100) /\ trailer_count = 300 /\ gate_nodes = 5)
              => score = F(100)

C5_Witness ==
    /\ Scored
    /\ paved_area = F(100) /\ trailer_count = 300 /\ gate_nodes = 5
    /\ score = F(100)


\* C6: for paved = 85.0, trailers = 180, gates = 3 both normalized counts
\* are 60.0, the contributions are 42.5, 18.0 and 12.0, the score is 72.5
\* and the facility is classified STANDARD; the worked example of
\* /api/explain gives the same numbers.
C6_Example ==
    (Explained /\ paved_area = DecimalLiteral(850, 10)
               /\ trailer_count = 180 /\ gate_nodes = 3) =>
        /\ norm_trailers = DecimalLiteral(600, 10)
        /\ norm_gates = DecimalLiteral(600, 10)
        /\ explain_locals.paved_contribution = DecimalLiteral(425, 10)
        /\ explain_locals.trailer_contribution = DecimalLiteral(180, 10)
        /\ explain_locals.gate_contribution = DecimalLiteral(120, 10)
        /\ score = DecimalLiteral(725, 10)
        /\ classification.label = "STANDARD"
        /\ example_calculation.paved_contribution = DecimalLiteral(425, 10)
        /\ example_calculation.trailer_contribution = DecimalLiteral(180, 10)
        /\ example_calculation.gate_contribution = DecimalLiteral(120, 10)
        /\ example_calculation.score = score
        /\ example_calculation.classification = classification.tier

C6_Witness ==
    /\ Explained /\ entry = "run_dragnet"
    /\ paved_area = DecimalLiteral(850, 10)
    /\ trailer_count = 180 /\ gate_nodes = 3
    /\ score = DecimalLiteral(725, 10)
    /\ classification.label = "STANDARD"

\* C9: for a non-negative count the normalized count lies in [0, 100],
\* in calculate_velocity_score and in explain_score_breakdown alike.
C9_NormalizedInRange ==
    /\ (Scored /\ trailer_count >= 0) =>
          (FGeq(norm_trailers, F(0)) /\ FLeq(norm_trailers, F(100)))
    /\ (Scored /\ gate_nodes >= 0) =>
          (FGeq(norm_gates, F(0)) /\ FLeq(norm_gates, F(100)))
    /\ (Explained /\ trailer_count >= 0) =>
          /\ FGeq(explain_locals.trailer_norm, F(0))
          /\ FLeq(explain_locals.trailer_norm, F(100))
    /\ (Explained /\ gate_nodes >= 0) =>
          /\ FGeq(explain_locals.gate_norm, F(0))
          /\ FLeq(explain_locals.gate_norm, F(100))

C9_Witness ==
    /\ Explained
    /\ trailer_count > 300 /\ gate_nodes > 5
    /\ norm_trailers = F(100) /\ norm_gates = F(100)
    /\ explain_locals.trailer_norm = F(100)
    /\ explain_locals.gate_norm = F(100)

\* C10: a count above its benchmark is clamped, not rejected: the call
\* returns a score, which is the score at the benchmark (300 trailers,
\* 5 gates) with the other inputs unchanged.
C10_Clamped ==
    /\ (Scored /\ trailer_count >= 300) =>
          score = calculate_velocity_score(paved_area, 300, gate_nodes)
    /\ (Scored /\ gate_nodes >= 5) =>
          score = calculate_velocity_score(paved_area, trailer_count, 5)

C10_Witness ==
    /\ Scored
    /\ trailer_count > 300 /\ gate_nodes > 5
    /\ score = calculate_velocity_score(paved_area, 300, 5)
    /\ FLt(F(0), paved_area)

\* C11: paved_area is passed through unclamped: norm_paved is paved_area
\* and the paved contribution is ALPHA * paved_area also above 100 and
\* below 0; the call returns, with a score above 100 when paved_area is
\* above 100 and both counts are at their benchmarks, and a score below 0
\* when paved_area is below 0 and both counts are 0 or less.
C11_PavedUnclamped ==
    /\ Scored =>
          /\ norm_paved = paved_area
          /\ score = FAdd(FAdd(FMul(ALPHA, paved_area),
                               FMul(BETA, norm_trailers)),
                          FMul(GAMMA, norm_gates))
          /\ (FLt(F(100), paved_area) /\ trailer_count >= 300
                                      /\ gate_nodes >= 5)
                => FLt(F(100), score)
          /\ (FLt(paved_area, F(0)) /\ trailer_count <= 0 /\ gate_nodes <= 0)
                => FLt(score, F(0))
    /\ Explained =>
          explain_locals.paved_contribution = FMul(ALPHA, paved_area)

C11_Witness ==
    /\ Explained /\ entry = "call"
    /\ FLt(F(100), paved_area)
    /\ trailer_count = 300 /\ gate_nodes = 5
    /\ FLt(F(100), score)
    /\ explain_locals.paved_contribution = FMul(ALPHA, paved_area)

\* C13: when explain_score_breakdown is given the score that
\* calculate_velocity_score returned for the same inputs, the three
\* contributions it reports add up to the total_score it reports (all four
\* are one-decimal numbers, added as such); stated for the measurements
\* of the documented domain.
C13_BreakdownAddsUp ==
    (Explained /\ InDomain) =>
        FTenths(breakdown.paved_area.contribution)
            + FTenths(breakdown.trailer_count.contribution)
            + FTenths(breakdown.gate_nodes.contribution)
        = FTenths(breakdown.total_score)

\* explain_score_breakdown has returned, whoever called it
ExplainReturned ==
    Explained \/ (entry = "explain_score_breakdown" /\ pc = "done")

\* C15: the breakdown gives each raw input exactly one interpretation,
\* with lower-inclusive thresholds: paved % at >= 90, >= 70, >= 50, else;
\* trailer count at >= 200, >= 100, >= 50, else; gate count at >= 4, >= 2,
\* else.  The interpretation of a dimension is decided by that dimension's
\* raw value alone.
C15_Buckets ==
    ExplainReturned =>
        LET p == breakdown.paved_area.interpretation
            t == breakdown.trailer_count.interpretation
            g == breakdown.gate_nodes.interpretation
        IN  /\ p \in {"Mega DC - Maximum land utilization, high complexity",
                      "Standard DC - Good operational footprint",
                      "Mixed-use - Room for optimization",
                      "Limited paved area - May be office-heavy"}
            /\ (p = "Mega DC - Maximum land utilization, high complexity")
                  <=> FGeq(paved_area, F(90))
            /\ (p = "Standard DC - Good operational footprint")
                  <=> (FGeq(paved_area, F(70)) /\ FLt(paved_area, F(90)))
            /\ (p = "Mixed-use - Room for optimization")
                  <=> (FGeq(paved_area, F(50)) /\ FLt(paved_area, F(70)))
            /\ (p = "Limited paved area - May be office-heavy")
                  <=> FLt(paved_area, F(50))
            /\ t \in {"WHALE territory - Major distribution hub",
                      "High-volume facility - Significant throughput",
                      "Regional depot - Moderate activity",
                      "Small operation - Limited scale"}
            /\ (t = "WHALE territory - Major distribution hub")
                  <=> trailer_count >= 200
            /\ (t = "High-volume facility - Significant throughput")
                  <=> (trailer_count >= 100 /\ trailer_count < 200)
            /\ (t = "Regional depot - Moderate activity")
                  <=> (trailer_count >= 50 /\ trailer_count < 100)
            /\ (t = "Small operation - Limited scale")
                  <=> trailer_count < 50
            /\ g \in {"Complex multi-flow - High orchestration needs",
                      "Standard facility - Some traffic separation",
                      "Single entry point - Simple flow"}
            /\ (g = "Complex multi-flow - High orchestration needs")
                  <=> gate_nodes >= 4
            /\ (g = "Standard facility - Some traffic separation")
                  <=> (gate_nodes >= 2 /\ gate_nodes < 4)
            /\ (g = "Single entry point - Simple flow")
                  <=> gate_nodes < 2

C15_Witness ==
    /\ entry = "explain_score_breakdown" /\ pc = "done"
    /\ paved_area = DecimalLiteral(6995, 100)
    /\ trailer_count = 200 /\ gate_nodes = 2
    /\ breakdown.paved_area.interpretation
          = "Mixed-use - Room for optimization"
    /\ breakdown.trailer_count.interpretation
          = "WHALE territory - Major distribution hub"
    /\ breakdown.gate_nodes.interpretation
          = "Standard facility - Some traffic separation"

\* C16: explain_score_breakdown does not check its score argument against
\* the measurements: a call with any score, matching or not, returns a
\* breakdown whose total_score is that argument rounded to one decimal and
\* whose other entries are those of the measurements alone, the same as
\* in the breakdown for the score of the measurements.
C16_NoCrossCheck ==
    (entry = "explain_score_breakdown" /\ pc = "done") =>
        /\ breakdown.total_score = FRound1(score)
        /\ breakdown.paved_area.contribution
              = FRound1(FMul(ALPHA, paved_area))
        /\ [breakdown EXCEPT !.total_score = FZero]
              = [explain_score_breakdown(
                     paved_area, trailer_count, gate_nodes,
                     calculate_velocity_score(paved_area, trailer_count,
                                              gate_nodes))
                   EXCEPT !.total_score = FZero]

\* a call with the score 123.45 for measurements of the documented domain,
\* whose score is 100 at most, has returned
C16_Witness ==
    /\ entry = "explain_score_breakdown" /\ pc = "done"
    /\ InDomain
    /\ score = DecimalLiteral(12345, 100)
    /\ FLt(calculate_velocity_score(paved_area, trailer_count, gate_nodes),
           score)
    /\ FTenths(breakdown.total_score) = 1235
    /\ FTenths(breakdown.paved_area.contribution)
          + FTenths(breakdown.trailer_count.contribution)
          + FTenths(breakdown.gate_nodes.contribution) < 1000


(***************************************************************************)
(* Claims about calls of the engine by several callers, checked under      *)
(* CallsSpec.                                                              *)
(***************************************************************************)
\* calculate_velocity_score has returned in the frame f
FrameScored(f) == f.pc \in {"classify", "explain", "done"}

SameArguments(f, g) ==
    /\ f.paved_area = g.paved_area
    /\ f.trailer_count = g.trailer_count
    /\ f.gate_nodes = g.gate_nodes

\* C12: the three functions are deterministic: of two calls, by the same
\* caller or by different ones and with any calls in between, those of
\* calculate_velocity_score with the same arguments have returned the same
\* score, those of classify_facility with the same score the same
\* classification, and those of explain_score_breakdown with the same
\* arguments and score the same breakdown.
C12_Deterministic ==
    \A v, w \in Callers :
        /\ (FrameScored(frames[v]) /\ FrameScored(frames[w])
               /\ SameArguments(frames[v], frames[w]))
              => frames[v].score = frames[w].score
        /\ (frames[v].pc \in {"explain", "done"}
               /\ frames[w].pc \in {"explain", "done"}
               /\ frames[v].score = frames[w].score)
              => frames[v].classification = frames[w].classification
        /\ (frames[v].pc = "done" /\ frames[w].pc = "done"
               /\ SameArguments(frames[v], frames[w])
               /\ frames[v].score = frames[w].score)
              => frames[v].breakdown = frames[w].breakdown

\* the first caller's first call and a later call of the second caller
\* have the same arguments and have both returned
C12_Witness ==
    /\ frames[1].pc = "done" /\ ~frames[1].again
    /\ frames[2].pc = "done" /\ frames[2].again
    /\ SameArguments(frames[1], frames[2])
    /\ frames[1].score = frames[2].score
    /\ frames[1].breakdown = frames[2].breakdown

\* the score of the arguments of the frame f, computed without interruption
FrameScore(f) ==
    calculate_velocity_score(f.paved_area, f.trailer_count, f.gate_nodes)

\* C14: the engine keeps and shares no mutable state: however the steps of
\* the callers interleave, a call's score, classification and breakdown
\* are those of the same facility processed alone, and the weights and the
\* benchmarks of the module stay as they were.
C14_Stateless ==
    /\ module_globals = ModuleGlobals
    /\ \A w \in Callers :
          /\ FrameScored(frames[w]) => frames[w].score = FrameScore(frames[w])
          /\ frames[w].pc \in {"explain", "done"} =>
                frames[w].classification
                    = classify_facility(FrameScore(frames[w]))
          /\ frames[w].pc = "done" =>
                frames[w].breakdown
                    = explain_score_breakdown(frames[w].paved_area,
                                              frames[w].trailer_count,
                                              frames[w].gate_nodes,
                                              FrameScore(frames[w]))

\* two calls for different facilities are in progress at once: the first
\* one is scored and classified, the second one scored
C14_Witness ==
    /\ frames[1].pc = "explain" /\ frames[2].pc = "classify"
    /\ frames[1].classification = classify_facility(FrameScore(frames[1]))
    /\ ~SameArguments(frames[1], frames[2])
    /\ frames[1].score = FrameScore(frames[1])
    /\ frames[2].score = FrameScore(frames[2])
    /\ frames[1].score # frames[2].score


(***************************************************************************)
(* Claims about the batch runners, checked under BatchSpec.                *)
(***************************************************************************)
\* C7: the list a batch run reports is sorted by score, descending, and
\* facilities of equal score stand in their input order.
C7_SortedStable ==
    b_pc = "done" =>
        \A i, j \in 1..Len(results) :
            i < j =>
                /\ FGeq(results[i].score, results[j].score)
                /\ results[i].score = results[j].score
                      => results[i].name < results[j].name

C7_Witness ==
    /\ b_pc = "done" /\ Len(results) = 3
    /\ results[1].name = 3
    /\ results[2].name = 1 /\ results[3].name = 2
    /\ results[2].score = results[3].score
    /\ FLt(results[2].score, results[1].score)

\* the records of the list rs that carry the classification tier
Carrying(rs, tier) ==
    Cardinality({i \in 1..Len(rs) : rs[i].classification = tier})

\* C17: in every result record the classification agrees with the reported
\* one-decimal score: HIGH PRIORITY (WHALE) iff the score is >= 80,
\* STANDARD PROSPECT iff it is in [50, 80), LOW PRIORITY iff it is < 50;
\* so the whales, standard and low counts of a batch summary are the
\* numbers of records carrying each classification.
C17_ClassificationAgrees ==
    /\ (entry \in {"run_dragnet", "get_score"} /\ pc = "done") =>
          /\ (result.classification_details.tier = "HIGH PRIORITY")
                <=> IsWhale(result)
          /\ (result.classification_details.tier = "STANDARD PROSPECT")
                <=> IsStandard(result)
          /\ (result.classification_details.tier = "LOW PRIORITY")
                <=> IsLow(result)
    /\ b_pc = "done" =>
          /\ \A i \in 1..Len(results) :
                /\ (results[i].classification = "HIGH PRIORITY")
                      <=> IsWhale(results[i])
                /\ (results[i].classification = "STANDARD PROSPECT")
                      <=> IsStandard(results[i])
                /\ (results[i].classification = "LOW PRIORITY")
                      <=> IsLow(results[i])
          /\ summary.whales = Carrying(results, "HIGH PRIORITY")
          /\ summary.standard = Carrying(results, "STANDARD PROSPECT")
          /\ summary.low = Carrying(results, "LOW PRIORITY")

\* C8: a facility whose processing fails does not stop the batch: once the
\* run has ended, every facility whose processing does not fail has been
\* scored and is in the results.
C8_FailureIsolated ==
    b_pc \in {"done", "raised", "rejected"} =>
        \A i \in 1..Len(targets) :
            ~Raises(mode, targets[i]) =>
                \E k \in 1..Len(results) : results[k].name = i

\* C18: for every list of targets, the empty one included, the batch run
\* completes and returns exactly one result per input facility: once the
\* run has ended it has ended with the result list, and every facility of
\* the input is in that list exactly once.
C18_OneResultEach ==
    b_pc \in {"done", "raised", "rejected"} =>
        /\ b_pc = "done"
        /\ Len(results) = Len(targets)
        /\ \A i \in 1..Len(targets) :
              Cardinality({k \in 1..Len(results) : results[k].name = i}) = 1

\* C19: in the summary of a batch run the three counts add up to the
\* number of results, and the top target is one of the results, with a
\* score greater than or equal to the score of every result.
C19_SummaryPartition ==
    b_pc = "done" =>
        /\ summary.whales + summary.standard + summary.low = Len(results)
        /\ \E k \in 1..Len(results) : top_target = results[k]
        /\ \A k \in 1..Len(results) :
              FGeq(top_target.score, results[k].score)

C19_Witness ==
    /\ b_pc = "done" /\ Len(results) = 3
    /\ summary.whales = 1 /\ summary.standard = 1 /\ summary.low = 1
    /\ top_target = results[1]
    /\ top_target.name = 3
    /\ FLt(results[2].score, top_target.score)

====
